---------------------------- MODULE Spec2Model ----------------------------
(***************************************************************************)
(* Batch evaluation pipeline of the AI answer evaluator:                   *)
(*   app/main.py      run_evaluation_and_update_db,                        *)
(*                    run_evaluation_for_subject_and_update_db             *)
(*   app/services.py  evaluate_answers_with_ai                             *)
(*   app/crud.py      repository functions                                 *)
(*   app/models.py    tables                                               *)
(***************************************************************************)
EXTENDS Integers, Sequences, FiniteSets, TLC

(***************************************************************************)
(* Bounds of the model                                                     *)
(***************************************************************************)
\* number of answers of the large question (more than one chunk)
MaxAnswers == 12
\* longest JSON array the grader returns for one chunk
MaxResp == 1
\* largest chunk size the chunking loop is run with on its own
MaxChunk == 11

(***************************************************************************)
(* Program constants                                                       *)
(***************************************************************************)
\* the value line 116 gives chunk_size
ChunkSize == 10

(***************************************************************************)
(* Helpers                                                                 *)
(***************************************************************************)
Min(a, b) == IF a <= b THEN a ELSE b

RECURSIVE SeqsUpTo(_, _)
\* all sequences over S of length at most n
SeqsUpTo(S, n) ==
    IF n = 0 THEN {<<>>}
    ELSE LET shorter == SeqsUpTo(S, n - 1)
         IN  shorter \cup {Append(s, x) : s \in shorter, x \in S}

RECURSIVE SortedSeq(_)
\* the elements of a finite set of integers in increasing order
SortedSeq(S) ==
    IF S = {} THEN <<>>
    ELSE LET m == CHOOSE x \in S : \A y \in S : x <= y
         IN  <<m>> \o SortedSeq(S \ {m})

RECURSIVE Concat(_)
\* concatenation of a sequence of sequences
Concat(ss) == IF ss = <<>> THEN <<>> ELSE Head(ss) \o Concat(Tail(ss))

RECURSIVE SumOver(_, _)
\* sum of Op(x) over the elements x of the sequence s
SumOver(Op(_), s) == IF s = <<>> THEN 0 ELSE Op(Head(s)) + SumOver(Op, Tail(s))

(***************************************************************************)
(* The store (models.py).  Subjects S1, S2; questions Q1 (S1, MaxAnswers   *)
(* answers), Q2 (S1, no answer), Q3 (S2, one answer).                      *)
(***************************************************************************)
SubjectIds == {"S1", "S2"}
QuestionIds == {"Q1", "Q2", "Q3"}
\* the order in which a query returns the questions
QuestionOrder == <<"Q1", "Q2", "Q3">>
AnswerIds == 1 .. (MaxAnswers + 1)
\* an id that is the primary key of no task answer
StrayId == MaxAnswers + 2

\* rows of table questions
Question == [q \in QuestionIds |->
                [subject_id |-> IF q = "Q3" THEN "S2" ELSE "S1"]]

\* a nullable Boolean column: NULL, or Some(b) holding the Boolean b
NULL == <<>>
Some(b) == <<b>>

\* rows of table task_answers before any evaluation
TaskAnswer == [a \in AnswerIds |->
                 [question_id  |-> IF a <= MaxAnswers THEN "Q1" ELSE "Q3",
                  subject_id   |-> IF a <= MaxAnswers THEN "S1" ELSE "S2",
                  student_id   |-> a,
                  answer       |-> a,
                  ground_truth |-> (a % 2 = 0),
                  status       |-> NULL]]


\* Question.task_answers: the answers whose question_id is q
TaskAnswersOf(rows, q) ==
    SortedSeq({a \in DOMAIN rows : rows[a].question_id = q})

(***************************************************************************)
(* crud.py                                                                 *)
(***************************************************************************)
\* get_all_questions_with_answers: every question, its answers joined
get_all_questions_with_answers(rows) ==
    [k \in 1 .. Len(QuestionOrder) |->
        [id |-> QuestionOrder[k],
         task_answers |-> TaskAnswersOf(rows, QuestionOrder[k])]]

\* the subsequence of s whose elements satisfy Keep
RECURSIVE FilterSeq(_, _)
FilterSeq(Keep(_), s) ==
    IF s = <<>> THEN <<>>
    ELSE IF Keep(Head(s)) THEN <<Head(s)>> \o FilterSeq(Keep, Tail(s))
         ELSE FilterSeq(Keep, Tail(s))

\* get_questions_with_answers_by_subject: filter(Question.subject_id == subject_id)
get_questions_with_answers_by_subject(rows, subject_id) ==
    LET OfSubject(qr) == Question[qr.id].subject_id = subject_id
    IN  FilterSeq(OfSubject, get_all_questions_with_answers(rows))

\* every answer of the row's question gets the status
update_status_of_question(rows, task_answer_id, is_correct) ==
    IF task_answer_id \in DOMAIN rows
    THEN [a \in DOMAIN rows |->
             IF rows[a].question_id = rows[task_answer_id].question_id
             THEN [rows[a] EXCEPT !.status = Some(is_correct)]
             ELSE rows[a]]
    ELSE rows

\* status = is_correct or None: a false verdict is stored as NULL
update_false_as_null(rows, task_answer_id, is_correct) ==
    IF task_answer_id \in DOMAIN rows
    THEN [rows EXCEPT ![task_answer_id].status =
              IF is_correct THEN Some(TRUE) ELSE NULL]
    ELSE rows

\* a row that already holds a verdict gets the opposite of it
update_flips(rows, task_answer_id, is_correct) ==
    IF task_answer_id \in DOMAIN rows
    THEN [rows EXCEPT ![task_answer_id].status =
              IF @ = NULL THEN Some(is_correct) ELSE Some(~@[1])]
    ELSE rows

\* the status is stored in the column ground_truth
update_ground_truth(rows, task_answer_id, is_correct) ==
    IF task_answer_id \in DOMAIN rows
    THEN [rows EXCEPT ![task_answer_id].ground_truth = is_correct]
    ELSE rows

\* update_task_answer_status: the row with this primary key, if any, gets
\* status is_correct; no row matches: nothing changes
update_task_answer_status(rows, task_answer_id, is_correct) ==
    IF task_answer_id \in DOMAIN rows
    THEN [rows EXCEPT ![task_answer_id].status = Some(is_correct)]
    ELSE rows

\* the new row takes the place of the rows already there
create_request_log_replaces(logs, log) == <<log>>

\* create_request_log: one row added to request_logs
create_request_log(logs, log) == Append(logs, log)

(***************************************************************************)
(* The grader's response (services.py 152-156).  response.text is a        *)
(* sequence of tokens: a code fence (three backticks), the word json,      *)
(* white space, prose that is no JSON, a JSON array, a JSON scalar.        *)
(***************************************************************************)
Tok(t) == [t |-> t, v |-> <<>>]
FENCE == Tok("fence")
JSON_TAG == Tok("json")
WS == Tok("ws")
PROSE == Tok("prose")
JSON_SCALAR == Tok("scalar")
JsonArray(items) == [t |-> "array", v |-> items]

\* one element of a JSON array; valid: it has exactly the fields of
\* schemas.AIEvaluationResponse (task_answer_id, correct) with values of their types
Item(id, c) == [task_answer_id |-> id, correct |-> c, valid |-> TRUE]
BadItem == [task_answer_id |-> 0, correct |-> FALSE, valid |-> FALSE]

\* the answer ids a grader response names: one of the first chunk of Q1, one
\* of its second chunk, the answer of Q3, and one that no answer has
GraderIds == {1, ChunkSize + 1, MaxAnswers + 1, StrayId}
GraderItems == {Item(id, c) : id \in GraderIds, c \in BOOLEAN}
\* JSON documents of the right shape, and of a wrong one
GoodDocs == {JsonArray(items) : items \in SeqsUpTo(GraderItems, MaxResp)}
BadShapeDocs == {JSON_SCALAR, JsonArray(<<BadItem>>)}
\* the texts of a response: none, prose, a document bare or fenced
GraderTexts ==
    {<<>>, <<WS>>, <<PROSE>>}
    \cup {<<d>> : d \in GoodDocs \cup BadShapeDocs}
    \cup {<<FENCE, JSON_TAG, WS, d, WS, FENCE>> : d \in GoodDocs \cup BadShapeDocs}

\* response.usage_metadata: absent, or the three token counts
NoUsage == [present |-> FALSE, prompt_token_count |-> 0,
            candidates_token_count |-> 0, total_token_count |-> 0]
SomeUsage == [present |-> TRUE, prompt_token_count |-> 3,
              candidates_token_count |-> 4, total_token_count |-> 7]
\* what comes with the text of a response: end_time - start_time of the
\* call, in whole time units, and the usage metadata; a short call without
\* metadata, a longer one with it
GraderMetadata ==
    {[duration |-> 1, usage |-> NoUsage], [duration |-> 2, usage |-> SomeUsage]}

(***************************************************************************)
(* services.py 176-183: cleaning and parsing of response.text              *)
(***************************************************************************)
RECURSIVE LStrip(_)
LStrip(text) ==
    IF text /= <<>> /\ Head(text) = WS THEN LStrip(Tail(text)) ELSE text

RECURSIVE RStrip(_)
RStrip(text) ==
    IF text /= <<>> /\ text[Len(text)] = WS
    THEN RStrip(SubSeq(text, 1, Len(text) - 1))
    ELSE text

\* str.strip()
Strip(text) == RStrip(LStrip(text))

\* does pattern start text
StartsWith(text, pattern) ==
    /\ Len(pattern) <= Len(text)
    /\ SubSeq(text, 1, Len(pattern)) = pattern

RECURSIVE Remove(_, _)
\* str.replace(pattern, ""): the occurrences of pattern, found left to right
\* without overlap, removed
Remove(text, pattern) ==
    IF text = <<>> THEN <<>>
    ELSE IF StartsWith(text, pattern)
         THEN Remove(SubSeq(text, Len(pattern) + 1, Len(text)), pattern)
         ELSE <<Head(text)>> \o Remove(Tail(text), pattern)

\* line 177 without its first replace: the fences go, the tag stays
CleanTextKeepsTag(text) == Strip(Remove(Strip(text), <<FENCE>>))

\* line 177: .strip().replace("```json", "").replace("```", "").strip()
CleanText(text) ==
    Strip(Remove(Remove(Strip(text), <<FENCE, JSON_TAG>>), <<FENCE>>))

\* json.loads raises JSONDecodeError unless the text is one JSON document
JsonDecodes(cleaned_text) ==
    /\ Len(cleaned_text) = 1
    /\ cleaned_text[1].t \in {"array", "scalar"}

\* line 180: iterating a scalar, or building AIEvaluationResponse from an
\* element of the wrong shape, raises (TypeError, ValidationError)
BuildsResponses(doc) ==
    /\ doc.t = "array"
    /\ \A k \in 1 .. Len(doc.v) : doc.v[k].valid

\* [schemas.AIEvaluationResponse(**item) for item in evaluations_data]
Responses(doc) ==
    [k \in 1 .. Len(doc.v) |->
        [task_answer_id |-> doc.v[k].task_answer_id, correct |-> doc.v[k].correct]]

\* what lines 176-185 do with response.text:
\*   "empty"   the text is falsy (line 184)
\*   "decode"  json.loads raised JSONDecodeError (line 182)
\*   "raise"   another exception leaves the loop (line 200)
\*   "parsed"  ai_responses was built
ParseKind(text) ==
    IF text = <<>> THEN "empty"
    ELSE IF ~JsonDecodes(CleanText(text)) THEN "decode"
    ELSE IF ~BuildsResponses(CleanText(text)[1]) THEN "raise"
    ELSE "parsed"

ParsedResponses(text) ==
    IF ParseKind(text) = "parsed" THEN Responses(CleanText(text)[1]) ELSE <<>>

(***************************************************************************)
(* services.py 125-126: the chunking loop                                  *)
(***************************************************************************)
\* all_answers[i:i + size + 1]: a slice one element too long
SliceTooLong(all_answers, i, size) ==
    SubSeq(all_answers, i + 1, Min(i + size + 1, Len(all_answers)))

\* all_answers[i:i + size], i counted from 0
Slice(all_answers, i, size) ==
    SubSeq(all_answers, i + 1, Min(i + size, Len(all_answers)))

\* range(0, n, size)
RangeStarts(n, size) == {i \in 0 .. n : i < n /\ i % size = 0}

(***************************************************************************)
(* State                                                                   *)
(***************************************************************************)
VARIABLES
    \* the store
    task_answers,       \* table task_answers: id -> row
    request_logs,       \* table request_logs: the rows in insertion order
    \* the background task (main.py)
    pc,                 \* where the task stands
    scope,              \* "all", or the subject id of a subject run
    questions,          \* the fetched questions, each with its task_answers
    qi,                 \* index in questions of the question at hand
    service_result,     \* what evaluate_answers_with_ai returned
    w,                  \* index in service_result.evaluations of the next update
    \* evaluate_answers_with_ai (services.py)
    chunk_size,         \* the local variable of line 116
    i,                  \* start of the next chunk, the loop variable
    aggregated_evaluations,
    total_duration,
    total_prompt_tokens,
    total_candidates_tokens,
    total_tokens,
    \* history of the current run, read by the properties only
    q_state,            \* question id -> PENDING, SUBMITTED, COMPLETED, SKIPPED, FAILED
    chunk_log,          \* the chunks of the current evaluate call, as processed
    grader_calls,       \* question id -> grader calls made for it
    verdicts_parsed,    \* question id -> verdicts parsed from its responses
    update_calls,       \* the update_task_answer_status calls of the question at hand
    written,            \* <<question at hand, task_answer_id>> of every such call
    pre_answers,        \* task_answers when the run started
    pre_logs,           \* request_logs when the run started
    paused_after,       \* the questions the task slept after
    parsed_ids,         \* the task_answer_ids of the responses parsed in the run
    \* who wrote what in the store, read by the properties only
    writer,             \* answer id -> the run that last updated its row, 0: none
    log_run,            \* the run that added each row of request_logs
    \* the environment of the tasks
    api_key,            \* GEMINI_API_KEY is set
    run_id,             \* the run the task variables above belong to
    parked,             \* the task variables of the other run, when there is one
    script,             \* the grader's answers of the first run, for a second one
    played              \* how many of them the second run has been given

store == <<task_answers, request_logs>>
runner == <<pc, scope, questions, qi, service_result, w>>
service == <<chunk_size, i, aggregated_evaluations, total_duration, total_prompt_tokens,
             total_candidates_tokens, total_tokens>>
history == <<q_state, chunk_log, grader_calls, verdicts_parsed, update_calls,
            written, pre_answers, pre_logs, paused_after, parsed_ids>>
authors == <<writer, log_run>>
config == <<api_key>>
runs == <<run_id, parked, script, played>>
vars == <<store, runner, service, history, authors, config, runs>>

\* the value None of Optional[ServiceEvaluationResult]
None == [is_none |-> TRUE, evaluations |-> <<>>, duration |-> 0,
         prompt_tokens |-> 0, candidates_tokens |-> 0, total_tokens |-> 0]

\* the question at hand and its payload.answers
question == questions[qi]
all_answers == question.task_answers

\* the state before a task starts, but for pc, questions, chunk_size, the
\* key and the grader's script
InitRest ==
    /\ task_answers = TaskAnswer
    /\ request_logs = <<>>
    /\ scope = "all"
    /\ qi = 1
    /\ service_result = None
    /\ w = 1
    /\ i = 0
    /\ aggregated_evaluations = <<>>
    /\ total_duration = 0
    /\ total_prompt_tokens = 0
    /\ total_candidates_tokens = 0
    /\ total_tokens = 0
    /\ q_state = [q \in QuestionIds |-> "NONE"]
    /\ chunk_log = <<>>
    /\ grader_calls = [q \in QuestionIds |-> 0]
    /\ verdicts_parsed = [q \in QuestionIds |-> 0]
    /\ update_calls = <<>>
    /\ written = {}
    /\ pre_answers = TaskAnswer
    /\ pre_logs = <<>>
    /\ paused_after = {}
    /\ parsed_ids = {}
    /\ writer = [a \in AnswerIds |-> 0]
    /\ log_run = <<>>
    /\ run_id = 1
    /\ parked = <<>>
    /\ played = 0

\* services.py 18-26: a missing GEMINI_API_KEY is logged when the module is
\* loaded, and the application goes on
Init ==
    /\ InitRest
    /\ api_key \in BOOLEAN
    /\ script = <<>>
    /\ pc = "idle"
    /\ questions = <<>>
    /\ chunk_size = ChunkSize

(***************************************************************************)
(* main.py: the two background tasks                                       *)
(***************************************************************************)
\* no task has been started yet
TaskFree == pc = "idle"

\* lines 21-22 and 109-110: the fetch that opens a run
Begin(sc, fetched) ==
    /\ scope' = sc
    /\ questions' = fetched
    /\ qi' = 1
    /\ pc' = "loop"
    /\ service_result' = None
    /\ w' = 1
    /\ q_state' = [q \in QuestionIds |->
                     IF \E k \in 1 .. Len(fetched) : fetched[k].id = q
                     THEN "PENDING" ELSE "NONE"]
    /\ chunk_log' = <<>>
    /\ grader_calls' = [q \in QuestionIds |-> 0]
    /\ verdicts_parsed' = [q \in QuestionIds |-> 0]
    /\ update_calls' = <<>>
    /\ written' = {}
    /\ pre_answers' = task_answers
    /\ pre_logs' = request_logs
    /\ paused_after' = {}
    /\ parsed_ids' = {}
    /\ UNCHANGED <<store, service, authors>>

\* the first task of the process
StartRun(sc, fetched) ==
    /\ TaskFree
    /\ Begin(sc, fetched)
    /\ UNCHANGED <<config, runs>>

\* run_evaluation_and_update_db, lines 21-22
RunAll == StartRun("all", get_all_questions_with_answers(task_answers))

\* run_evaluation_for_subject_and_update_db, lines 109-110; a subject id
\* that no subject has fetches nothing
RunSubject ==
    \E subject_id \in SubjectIds \cup {"S3"} :
        StartRun(subject_id,
                 get_questions_with_answers_by_subject(task_answers, subject_id))

\* lines 24 and 76: the for loop has no question left
Finish ==
    /\ pc = "loop"
    /\ qi > Len(questions)
    /\ pc' = "done"
    /\ UNCHANGED <<store, scope, questions, qi, service_result, w,
                   service, history, authors, config, runs>>

\* line 25 without its test
HasAnswersUnchecked(task) == TRUE

\* line 25: the question has answers (not question.task_answers is false)
HasAnswers(task) == task.task_answers /= <<>>

\* lines 25-27: a question without answers is skipped
Skip ==
    /\ pc = "loop"
    /\ qi <= Len(questions)
    /\ ~HasAnswers(question)
    /\ qi' = qi + 1
    /\ q_state' = [q_state EXCEPT ![question.id] = "SKIPPED"]
    /\ UNCHANGED <<store, pc, scope, questions, service_result, w,
                   service, chunk_log, grader_calls, verdicts_parsed, update_calls,
                   written, pre_answers, pre_logs, paused_after, parsed_ids,
                   authors, config, runs>>

\* the exception leaves evaluate_answers_with_ai and ends the task
AfterExceptionPropagates == "crashed"

\* services.py 200-202: except Exception logs and returns None, so the
\* task goes on at main.py 47
AfterException == "returned"

\* services.py 43: genai.Client() finds no key and raises
ClientCreated == api_key

\* lines 29-44 and services.py 41-43, 115-121: the payload is built and
\* evaluate_answers_with_ai entered; without a client it returns None
Submit ==
    /\ pc = "loop"
    /\ qi <= Len(questions)
    /\ HasAnswers(question)
    /\ pc' = IF ClientCreated THEN "eval" ELSE AfterException
    /\ chunk_size' = ChunkSize
    /\ i' = 0
    /\ aggregated_evaluations' = <<>>
    /\ total_duration' = 0
    /\ total_prompt_tokens' = 0
    /\ total_candidates_tokens' = 0
    /\ total_tokens' = 0
    /\ q_state' = [q_state EXCEPT ![question.id] = "SUBMITTED"]
    /\ chunk_log' = <<>>
    /\ UNCHANGED <<store, scope, questions, qi, service_result, w,
                   grader_calls, verdicts_parsed, update_calls, written,
                   pre_answers, pre_logs, paused_after, parsed_ids,
                   authors, config, runs>>

(***************************************************************************)
(* services.py: evaluate_answers_with_ai                                   *)
(***************************************************************************)
\* line 125: the loop has a chunk left
MoreChunks == i \in RangeStarts(Len(all_answers), chunk_size)

\* line 126
chunk_of_answers == Slice(all_answers, i, chunk_size)

\* line 125: the start of the chunk after this one
NextStart(start, size) == start + size

\* total_duration = duration in place of line 160's +=
AddDurationOverwrites(total, duration) == duration

\* line 160
AddDuration(total, duration) == total + duration

\* lines 164-169: a count is added when the response has usage metadata
AddTokens(total, usage, count) == IF usage.present THEN total + count ELSE total

\* lines 176-185: the evaluations after the response text was handled
Extend(evaluations, text) ==
    IF ParseKind(text) = "parsed"
    THEN evaluations \o ParsedResponses(text)
    ELSE evaluations

\* lines 178-183 and 200: only JSONDecodeError is caught inside the loop;
\* any other exception of lines 179-180 ends the function
Aborts(text) == ParseKind(text) = "raise"

\* lines 187-198 without the test of line 187
ResultUnchecked(evaluations, duration, prompt, candidates, total) ==
    [is_none |-> FALSE, evaluations |-> evaluations, duration |-> duration,
     prompt_tokens |-> prompt, candidates_tokens |-> candidates,
     total_tokens |-> total]

\* lines 187-198: the value returned after the last chunk
Result(evaluations, duration, prompt, candidates, total) ==
    IF evaluations /= <<>>
    THEN [is_none |-> FALSE, evaluations |-> evaluations, duration |-> duration,
          prompt_tokens |-> prompt, candidates_tokens |-> candidates,
          total_tokens |-> total]
    ELSE None

\* one entry of chunk_log
ChunkEntry(kind, text, duration, usage) ==
    [start |-> i, answers |-> chunk_of_answers, kind |-> kind,
     evaluations |-> ParsedResponses(text), duration |-> duration, usage |-> usage]

\* the function returns: its local variables are gone
Discard ==
    /\ chunk_size' = ChunkSize
    /\ i' = 0
    /\ aggregated_evaluations' = <<>>
    /\ total_duration' = 0
    /\ total_prompt_tokens' = 0
    /\ total_candidates_tokens' = 0
    /\ total_tokens' = 0

\* lines 152-156 raise (transport, authentication, quota): the except of
\* line 200 returns None
Raise ==
    /\ service_result' = None
    /\ pc' = AfterException
    /\ chunk_log' = Append(chunk_log, ChunkEntry("call_raise", <<>>, 0, NoUsage))
    /\ grader_calls' = [grader_calls EXCEPT ![question.id] = @ + 1]
    /\ Discard
    /\ UNCHANGED <<store, scope, questions, qi, w,
                   q_state, verdicts_parsed, update_calls, written,
                   pre_answers, pre_logs, paused_after, parsed_ids, authors>>

\* the grader call of a chunk fails
GraderRaises ==
    /\ pc = "eval"
    /\ MoreChunks
    /\ Raise
    /\ UNCHANGED <<config, runs>>

\* the task_answer_ids of a list of AIEvaluationResponse
IdsOf(evaluations) == {evaluations[k].task_answer_id : k \in 1..Len(evaluations)}

\* lines 149-185: the call returns a response; the duration and the token
\* counts are added, then the text is cleaned and parsed
Respond(meta, text) ==
      LET duration == meta.duration
          usage == meta.usage
      IN
        /\ chunk_log' =
               Append(chunk_log, ChunkEntry(ParseKind(text), text, duration, usage))
        /\ verdicts_parsed' =
               [verdicts_parsed EXCEPT ![question.id] = @ + Len(ParsedResponses(text))]
        /\ IF Aborts(text)
           THEN \* line 200
                /\ service_result' = None
                /\ pc' = AfterException
                /\ Discard
           ELSE /\ total_duration' = AddDuration(total_duration, duration)
                /\ total_prompt_tokens' =
                       AddTokens(total_prompt_tokens, usage, usage.prompt_token_count)
                /\ total_candidates_tokens' =
                       AddTokens(total_candidates_tokens, usage,
                                 usage.candidates_token_count)
                /\ total_tokens' =
                       AddTokens(total_tokens, usage, usage.total_token_count)
                /\ aggregated_evaluations' = Extend(aggregated_evaluations, text)
                /\ i' = NextStart(i, chunk_size)
                /\ UNCHANGED <<chunk_size, service_result, pc>>
        /\ parsed_ids' = parsed_ids \cup IdsOf(ParsedResponses(text))
        /\ grader_calls' = [grader_calls EXCEPT ![question.id] = @ + 1]
        /\ UNCHANGED <<store, scope, questions, qi, w,
                       q_state, update_calls, written, pre_answers, pre_logs,
                       paused_after, authors>>

\* the grader answers the call of a chunk
GraderResponds ==
    /\ pc = "eval"
    /\ MoreChunks
    /\ \E meta \in GraderMetadata, text \in GraderTexts : Respond(meta, text)
    /\ UNCHANGED <<config, runs>>

\* lines 187-198: the loop is over
Return ==
    /\ pc = "eval"
    /\ ~MoreChunks
    /\ service_result' = Result(aggregated_evaluations, total_duration,
                                total_prompt_tokens, total_candidates_tokens,
                                total_tokens)
    /\ pc' = "returned"
    /\ Discard
    /\ UNCHANGED <<store, scope, questions, qi, w, history, authors, config, runs>>

(***************************************************************************)
(* main.py 47-74: what the task does with service_result                   *)
(***************************************************************************)
\* line 47: if service_result
Truthy(result) == ~result.is_none

\* lines 47 and 69-70
CheckResult ==
    /\ pc = "returned"
    /\ IF Truthy(service_result)
       THEN /\ pc' = "update"
            /\ w' = 1
            /\ UNCHANGED q_state
       ELSE /\ pc' = "sleep"
            /\ q_state' = [q_state EXCEPT ![question.id] = "FAILED"]
            /\ UNCHANGED w
    /\ chunk_log' = <<>>
    /\ UNCHANGED <<store, scope, questions, qi, service_result, service,
                   grader_calls, verdicts_parsed, update_calls, written,
                   pre_answers, pre_logs, paused_after, parsed_ids,
                   authors, config, runs>>

\* the next element of service_result.evaluations
eval_result == service_result.evaluations[w]

\* the log entry written without the loop of lines 49-54
UpdatesSkipped == TRUE

\* line 49: the for loop over service_result.evaluations is over
UpdatesDone == w > Len(service_result.evaluations)

\* lines 49-54: one crud.update_task_answer_status
UpdateStatus ==
    /\ pc = "update"
    /\ ~UpdatesDone
    /\ task_answers' = update_task_answer_status(
                           task_answers, eval_result.task_answer_id, eval_result.correct)
    /\ w' = w + 1
    /\ update_calls' = Append(update_calls,
                              [question_id |-> question.id,
                               task_answer_id |-> eval_result.task_answer_id,
                               is_correct |-> eval_result.correct])
    /\ written' = written \cup {<<question.id, eval_result.task_answer_id>>}
    /\ writer' = [a \in AnswerIds |->
                     IF a = eval_result.task_answer_id THEN run_id ELSE writer[a]]
    /\ UNCHANGED <<request_logs, pc, scope, questions, qi, service_result,
                   service, q_state, chunk_log, grader_calls, verdicts_parsed,
                   pre_answers, pre_logs, paused_after, parsed_ids,
                   log_run, config, runs>>

\* the log entry with the number of verdicts of the result as its count
log_entry_counts_verdicts ==
    [request_time |-> service_result.duration,
     question_count |-> Len(service_result.evaluations),
     prompt_token_count |-> service_result.prompt_tokens,
     candidates_token_count |-> service_result.candidates_tokens,
     total_token_count |-> service_result.total_tokens,
     question_id |-> question.id]

\* the log entry of lines 58-65
log_entry ==
    [request_time |-> service_result.duration,
     question_count |-> Len(question.task_answers),
     prompt_token_count |-> service_result.prompt_tokens,
     candidates_token_count |-> service_result.candidates_tokens,
     total_token_count |-> service_result.total_tokens,
     question_id |-> question.id]

\* lines 57-67: crud.create_request_log after the last update
CreateLog ==
    /\ pc = "update"
    /\ UpdatesDone
    /\ request_logs' = create_request_log(request_logs, log_entry)
    /\ pc' = "sleep"
    /\ q_state' = [q_state EXCEPT ![question.id] = "COMPLETED"]
    /\ log_run' = Append(log_run, run_id)
    /\ UNCHANGED <<task_answers, scope, questions, qi, service_result, w,
                   service, chunk_log, grader_calls, verdicts_parsed, update_calls,
                   written, pre_answers, pre_logs, paused_after, parsed_ids,
                   writer, config, runs>>

\* the failed call undoes the writes made since the run began
WriteRaisesRollsBack ==
    /\ pc = "update"
    /\ pc' = "crashed"
    /\ task_answers' = pre_answers
    /\ request_logs' = pre_logs
    /\ UNCHANGED <<scope, questions, qi, service_result, w,
                   service, history, authors, config, runs>>

\* a repository call of lines 50 or 66 raises (the commit fails, the
\* connection is lost); nothing around it catches: the task ends
WriteRaises ==
    /\ pc = "update"
    /\ pc' = "crashed"
    /\ UNCHANGED <<store, scope, questions, qi, service_result, w,
                   service, history, authors, config, runs>>

\* the next question without the sleep of lines 72-74
NoSleep ==
    /\ pc = "sleep"
    /\ pc' = "loop"
    /\ qi' = qi + 1
    /\ service_result' = None
    /\ w' = 1
    /\ update_calls' = <<>>
    /\ UNCHANGED <<store, scope, questions, service, q_state, chunk_log,
                   grader_calls, verdicts_parsed, written, pre_answers, pre_logs,
                   paused_after, parsed_ids, authors, config, runs>>

\* lines 72-74: time.sleep(2), then the next question
Sleep ==
    /\ pc = "sleep"
    /\ pc' = "loop"
    /\ qi' = qi + 1
    /\ service_result' = None
    /\ w' = 1
    /\ update_calls' = <<>>
    /\ paused_after' = paused_after \cup {question.id}
    /\ UNCHANGED <<store, scope, questions, service, q_state, chunk_log,
                   grader_calls, verdicts_parsed, written, pre_answers, pre_logs,
                   parsed_ids, authors, config, runs>>

Next ==
    \/ RunAll
    \/ RunSubject
    \/ Finish
    \/ Skip
    \/ Submit
    \/ GraderRaises
    \/ GraderResponds
    \/ Return
    \/ CheckResult
    \/ UpdateStatus
    \/ CreateLog
    \/ WriteRaises
    \/ Sleep

Spec == Init /\ [][Next]_vars

(***************************************************************************)
(* The chunking loop of lines 125-126 on its own, for every answer list    *)
(* and every positive chunk size within the bounds                         *)
(***************************************************************************)
\* answer lists of every length, in increasing and in decreasing id order
AnswerLists ==
    {[k \in 1 .. n |-> k] : n \in 0 .. MaxAnswers}
    \cup {[k \in 1 .. n |-> n + 1 - k] : n \in 0 .. MaxAnswers}

ChunkInit ==
    /\ InitRest
    /\ api_key = TRUE
    /\ script = <<>>
    /\ pc = "chunking"
    /\ chunk_size \in 1 .. MaxChunk
    /\ \E answers \in AnswerLists :
           questions = <<[id |-> "Q1", task_answers |-> answers]>>

\* one iteration of the loop: the chunk is cut, nothing is sent
ChunkStep ==
    /\ pc = "chunking"
    /\ MoreChunks
    /\ chunk_log' = Append(chunk_log, ChunkEntry("chunk", <<>>, 0, NoUsage))
    /\ i' = NextStart(i, chunk_size)
    /\ UNCHANGED <<store, runner, chunk_size, aggregated_evaluations,
                   total_duration, total_prompt_tokens, total_candidates_tokens,
                   total_tokens, q_state, grader_calls, verdicts_parsed,
                   update_calls, written, pre_answers, pre_logs,
                   paused_after, parsed_ids, authors, config, runs>>

\* the loop is over
ChunkEnd ==
    /\ pc = "chunking"
    /\ ~MoreChunks
    /\ pc' = "chunked"
    /\ UNCHANGED <<store, scope, questions, qi, service_result, w, service, history,
                   authors, config, runs>>

ChunkNext == ChunkStep \/ ChunkEnd

ChunkSpec == ChunkInit /\ [][ChunkNext]_vars

(***************************************************************************)
(* A task whose grader follows a script: the calls of services.py 152-156  *)
(* give, in order, the answers listed in script                            *)
(***************************************************************************)
\* a response with its text, a short call without usage metadata
Answer(text) ==
    [raises |-> FALSE, meta |-> [duration |-> 1, usage |-> NoUsage], text |-> text]
\* a call that raises
RaisedAnswer ==
    [raises |-> TRUE, meta |-> [duration |-> 0, usage |-> NoUsage], text |-> <<>>]
\* the answer the next call gets
Prescribed == script[played + 1]

\* the call of a chunk raises, as the script says
ReplayRaises ==
    /\ pc = "eval"
    /\ MoreChunks
    /\ played < Len(script)
    /\ Prescribed.raises
    /\ Raise
    /\ played' = played + 1
    /\ UNCHANGED <<config, run_id, parked, script>>

\* the call of a chunk returns the response the script says
ReplayResponds ==
    /\ pc = "eval"
    /\ MoreChunks
    /\ played < Len(script)
    /\ ~Prescribed.raises
    /\ Respond(Prescribed.meta, Prescribed.text)
    /\ played' = played + 1
    /\ UNCHANGED <<config, run_id, parked, script>>

(***************************************************************************)
(* services.py 176-181 on its own: the grader's one response is the JSON   *)
(* text of a mapping from answer ids to Booleans                           *)
(***************************************************************************)
\* the mappings from some of the ids a grader names to verdicts
Mappings == UNION {[ids -> BOOLEAN] : ids \in SUBSET GraderIds}

\* the JSON array of the records of a mapping
Serialize(m) ==
    LET ids == SortedSeq(DOMAIN m)
    IN  JsonArray([k \in 1 .. Len(ids) |-> Item(ids[k], m[ids[k]])])

\* the document alone, and inside a code fence tagged json
Bare(doc) == <<doc>>
Fenced(doc) == <<FENCE, JSON_TAG, WS, doc, WS, FENCE>>

ParseInit ==
    /\ InitRest
    /\ api_key = TRUE
    /\ pc = "idle"
    /\ questions = <<>>
    /\ chunk_size = ChunkSize
    /\ \E m \in Mappings :
           \/ script = <<Answer(Bare(Serialize(m)))>>
           \/ script = <<Answer(Fenced(Serialize(m)))>>

\* the task of subject S2: its one question has one answer, hence one chunk
ParseStart ==
    StartRun("S2", get_questions_with_answers_by_subject(task_answers, "S2"))

ParseNext ==
    \/ ParseStart
    \/ Submit
    \/ ReplayResponds
    \/ Return

ParseSpec == ParseInit /\ [][ParseNext]_vars

(***************************************************************************)
(* The batch run twice: the first task's grader answers are written down   *)
(* in script, and a second task, started when the first is done, gets the  *)
(* same answers in the same order                                          *)
(***************************************************************************)
\* the ids named here: an answer of Q1 and the answer of Q3
RerunIds == {1, MaxAnswers + 1}
RerunTexts ==
    {<<>>}
    \cup {Bare(JsonArray(items)) :
              items \in SeqsUpTo({Item(id, c) : id \in RerunIds, c \in BOOLEAN}, MaxResp)}

RerunInit ==
    /\ InitRest
    /\ api_key = TRUE
    /\ script = <<>>
    /\ pc = "idle"
    /\ questions = <<>>
    /\ chunk_size = ChunkSize

\* a call of the first task raises
FirstRaises ==
    /\ run_id = 1
    /\ pc = "eval"
    /\ MoreChunks
    /\ Raise
    /\ script' = Append(script, RaisedAnswer)
    /\ UNCHANGED <<config, run_id, parked, played>>

\* a call of the first task gets a response
FirstResponds ==
    /\ run_id = 1
    /\ pc = "eval"
    /\ MoreChunks
    /\ \E text \in RerunTexts :
           /\ Respond(Answer(text).meta, text)
           /\ script' = Append(script, Answer(text))
    /\ UNCHANGED <<config, run_id, parked, played>>

\* POST /evaluate/all again, after the first task has finished
Rerun ==
    /\ run_id = 1
    /\ pc = "done"
    /\ Begin("all", get_all_questions_with_answers(task_answers))
    /\ run_id' = 2
    /\ UNCHANGED <<config, parked, script, played>>

\* the calls of the second task
SecondRaises == run_id = 2 /\ ReplayRaises
SecondResponds == run_id = 2 /\ ReplayResponds

RerunNext ==
    \/ RunAll
    \/ Finish
    \/ Skip
    \/ Submit
    \/ FirstRaises
    \/ FirstResponds
    \/ Return
    \/ CheckResult
    \/ UpdateStatus
    \/ CreateLog
    \/ WriteRaises
    \/ Sleep
    \/ Rerun
    \/ SecondRaises
    \/ SecondResponds

RerunSpec == RerunInit /\ [][RerunNext]_vars

(***************************************************************************)
(* Two tasks at once: main.py 79-91 and 150-158 add a task at every POST,  *)
(* and the tasks run in threads of their own over the one store.  The task *)
(* variables are those of the thread that runs; parked holds those of the  *)
(* other thread                                                            *)
(***************************************************************************)
\* a second POST is accepted only when no task is running
TriggerWhenNoTaskRuns == pc \in {"idle", "done", "crashed"}

\* main.py 79-91: add_task is called without a look at the tasks running
TriggerAllowed == TRUE

\* the variables of the thread that runs
Task ==
    [pc |-> pc,
     scope |-> scope,
     questions |-> questions,
     qi |-> qi,
     service_result |-> service_result,
     w |-> w,
     chunk_size |-> chunk_size,
     i |-> i,
     aggregated_evaluations |-> aggregated_evaluations,
     total_duration |-> total_duration,
     total_prompt_tokens |-> total_prompt_tokens,
     total_candidates_tokens |-> total_candidates_tokens,
     total_tokens |-> total_tokens,
     q_state |-> q_state,
     chunk_log |-> chunk_log,
     grader_calls |-> grader_calls,
     verdicts_parsed |-> verdicts_parsed,
     update_calls |-> update_calls,
     written |-> written,
     pre_answers |-> pre_answers,
     pre_logs |-> pre_logs,
     paused_after |-> paused_after,
     parsed_ids |-> parsed_ids,
     run_id |-> run_id]

\* the variables of a task that has not started
FreshTask(id) ==
    [pc |-> "idle",
     scope |-> "all",
     questions |-> <<>>,
     qi |-> 1,
     service_result |-> None,
     w |-> 1,
     chunk_size |-> ChunkSize,
     i |-> 0,
     aggregated_evaluations |-> <<>>,
     total_duration |-> 0,
     total_prompt_tokens |-> 0,
     total_candidates_tokens |-> 0,
     total_tokens |-> 0,
     q_state |-> [q \in QuestionIds |-> "NONE"],
     chunk_log |-> <<>>,
     grader_calls |-> [q \in QuestionIds |-> 0],
     verdicts_parsed |-> [q \in QuestionIds |-> 0],
     update_calls |-> <<>>,
     written |-> {},
     pre_answers |-> TaskAnswer,
     pre_logs |-> <<>>,
     paused_after |-> {},
     parsed_ids |-> {},
     run_id |-> id]

\* a thread takes over
Load(task) ==
    /\ pc' = task.pc
    /\ scope' = task.scope
    /\ questions' = task.questions
    /\ qi' = task.qi
    /\ service_result' = task.service_result
    /\ w' = task.w
    /\ chunk_size' = task.chunk_size
    /\ i' = task.i
    /\ aggregated_evaluations' = task.aggregated_evaluations
    /\ total_duration' = task.total_duration
    /\ total_prompt_tokens' = task.total_prompt_tokens
    /\ total_candidates_tokens' = task.total_candidates_tokens
    /\ total_tokens' = task.total_tokens
    /\ q_state' = task.q_state
    /\ chunk_log' = task.chunk_log
    /\ grader_calls' = task.grader_calls
    /\ verdicts_parsed' = task.verdicts_parsed
    /\ update_calls' = task.update_calls
    /\ written' = task.written
    /\ pre_answers' = task.pre_answers
    /\ pre_logs' = task.pre_logs
    /\ paused_after' = task.paused_after
    /\ parsed_ids' = task.parsed_ids
    /\ run_id' = task.run_id

\* POST /evaluate/subject/S1: the task of subject S1 (Q1 and Q2)
ConcStart ==
    StartRun("S1", get_questions_with_answers_by_subject(task_answers, "S1"))

\* a second POST while the first task exists: a second thread
SecondTrigger ==
    /\ TriggerAllowed
    /\ run_id = 1
    /\ pc /= "idle"
    /\ parked = <<>>
    /\ parked' = Task
    /\ Load(FreshTask(2))
    /\ UNCHANGED <<store, authors, config, script, played>>

\* the scheduler runs the other thread
Switch ==
    /\ parked /= <<>>
    /\ parked' = Task
    /\ Load(parked)
    /\ UNCHANGED <<store, authors, config, script, played>>

\* the grader answers a chunk with a verdict for the chunk's first answer
ConcResponds ==
    /\ pc = "eval"
    /\ MoreChunks
    /\ \E c \in BOOLEAN :
           LET text == Bare(JsonArray(<<Item(chunk_of_answers[1], c)>>))
           IN  Respond(Answer(text).meta, text)
    /\ UNCHANGED <<config, runs>>

ConcInit == RerunInit

ConcNext ==
    \/ ConcStart
    \/ SecondTrigger
    \/ Switch
    \/ Finish
    \/ Skip
    \/ Submit
    \/ ConcResponds
    \/ Return
    \/ CheckResult
    \/ UpdateStatus
    \/ CreateLog
    \/ Sleep

ConcSpec == ConcInit /\ [][ConcNext]_vars

(***************************************************************************)
(* The batch run twice with a grader that is free both times: the second   *)
(* task starts when the first is over, finished or ended by an exception   *)
(***************************************************************************)
\* the texts of a response here: none, prose, a document of the wrong
\* shape, a bare document naming an answer of Q1 or the answer of Q3
AgainTexts == RerunTexts \cup {<<PROSE>>, Bare(JsonArray(<<BadItem>>))}

\* the grader answers the call of a chunk
AgainResponds ==
    /\ pc = "eval"
    /\ MoreChunks
    /\ \E text \in AgainTexts : Respond(Answer(text).meta, text)
    /\ UNCHANGED <<config, runs>>

\* POST /evaluate/all again, after the first task has ended
Again ==
    /\ run_id = 1
    /\ pc \in {"done", "crashed"}
    /\ Begin("all", get_all_questions_with_answers(task_answers))
    /\ run_id' = 2
    /\ UNCHANGED <<config, parked, script, played>>

AgainNext ==
    \/ RunAll
    \/ Finish
    \/ Skip
    \/ Submit
    \/ GraderRaises
    \/ AgainResponds
    \/ Return
    \/ CheckResult
    \/ UpdateStatus
    \/ CreateLog
    \/ WriteRaises
    \/ Sleep
    \/ Again

AgainSpec == RerunInit /\ [][AgainNext]_vars

(***************************************************************************)
(* Vocabulary of the properties                                            *)
(***************************************************************************)
\* the task has ended: its loop is over, or an exception left it
RunOver == pc \in {"done", "crashed"}
\* the states in which a fetched question's processing has ended
Terminal == {"COMPLETED", "SKIPPED", "FAILED"}
\* the task stands at a question
AtQuestion == pc \in {"eval", "returned", "update", "sleep"}
\* number of chunks of the question at hand
NumChunks == Cardinality(RangeStarts(Len(all_answers), chunk_size))
\* the kinds, the parsed verdicts and the answers of the chunks processed
Kinds == [k \in DOMAIN chunk_log |-> chunk_log[k].kind]
ChunkVerdicts == Concat([k \in DOMAIN chunk_log |-> chunk_log[k].evaluations])
ChunkAnswers == Concat([k \in DOMAIN chunk_log |-> chunk_log[k].answers])
\* sums over the chunks processed
DurationOf(e) == e.duration
PromptOf(e) == e.usage.prompt_token_count
CandidatesOf(e) == e.usage.candidates_token_count
TotalOf(e) == e.usage.total_token_count
IsParsed(e) == e.kind = "parsed"
ParsedChunks == FilterSeq(IsParsed, chunk_log)
\* the rows this run added to request_logs, and those of question q
NewLogs == SubSeq(request_logs, Len(pre_logs) + 1, Len(request_logs))
LogsOf(q) == {k \in DOMAIN NewLogs : NewLogs[k].question_id = q}
\* the fetched questions
Fetched == {questions[k].id : k \in DOMAIN questions}
\* the subject of the question an answer row belongs to
SubjectOfAnswer(a) == Question[task_answers[a].question_id].subject_id

(***************************************************************************)
(* C1.  A failure never halts the batch: once the task has ended, every    *)
(* fetched question has been skipped, completed or failed, whatever        *)
(* happened to the questions before it (the evaluation returned nothing,   *)
(* or a repository write raised).                                          *)
(* The code has no handler around the repository calls of lines 50 and 66: *)
(* TLC finds the run ended by a raised write with questions left pending.  *)
(***************************************************************************)
C1_FailureNeverHaltsBatch ==
    RunOver => \A q \in Fetched : q_state[q] \in Terminal

(***************************************************************************)
(* C2.  In a question of several chunks, when the grader call of one chunk *)
(* raises and every other chunk is answered with parseable output, all the *)
(* chunks are still processed and the value returned holds exactly the     *)
(* verdicts of the answered chunks.                                        *)
(* The code returns None at the first call that raises (line 200).         *)
(***************************************************************************)
C2_FailedCallSkipsOnlyItsChunk ==
    ( /\ pc = "returned"
      /\ NumChunks > 1
      /\ \E k \in DOMAIN chunk_log :
            /\ Kinds[k] = "call_raise"
            /\ \A j \in DOMAIN chunk_log \ {k} : Kinds[j] = "parsed" )
    => /\ Len(chunk_log) = NumChunks
       /\ ChunkVerdicts /= <<>> =>
             /\ ~service_result.is_none
             /\ service_result.evaluations = ChunkVerdicts

C4_BadChunkIsSkipped ==
    ( /\ pc = "returned"
      /\ \E k \in DOMAIN chunk_log : Kinds[k] \in {"empty", "decode", "raise"}
      /\ \A k \in DOMAIN chunk_log : Kinds[k] /= "call_raise" )
    => /\ Len(chunk_log) = NumChunks
       /\ ChunkVerdicts /= <<>> =>
             /\ ~service_result.is_none
             /\ service_result.evaluations = ChunkVerdicts

(***************************************************************************)
(* C5.  Every call of update_task_answer_status made while question Q is   *)
(* at hand that finds a row finds a row of an answer of Q, whatever ids    *)
(* the grader names.                                                       *)
(* Lines 49-54 pass on every id of the response: TLC finds a row of        *)
(* another question updated.                                               *)
(***************************************************************************)
C5_WritesBelongToQuestion ==
    \A wr \in written :
        wr[2] \in DOMAIN task_answers => task_answers[wr[2]].question_id = wr[1]

(***************************************************************************)
(* C6.  A usage-log row is added for a question only if a response to one  *)
(* of its chunks was parsed into at least one verdict in this run; when no *)
(* verdict was parsed from any chunk, None is returned, and the question   *)
(* gets no usage-log row and no call of update_task_answer_status.         *)
(***************************************************************************)
C6_LogOnlyWithVerdicts ==
    /\ \A q \in QuestionIds : LogsOf(q) /= {} => verdicts_parsed[q] >= 1
    /\ (pc = "returned" /\ verdicts_parsed[question.id] = 0) =>
          service_result.is_none
    /\ \A q \in QuestionIds :
          verdicts_parsed[q] = 0 =>
              /\ LogsOf(q) = {}
              /\ \A wr \in written : wr[1] /= q

\* both chunks of Q1 came back without a verdict and Q1 failed; Q3 then
\* got its row
C6_Witness ==
    /\ q_state["Q1"] = "FAILED"
    /\ grader_calls["Q1"] = 2
    /\ verdicts_parsed["Q1"] = 0
    /\ q_state["Q3"] = "COMPLETED"
    /\ LogsOf("Q3") /= {}

(***************************************************************************)
(* C7.  After a run for subject S, only questions of S were sent to the    *)
(* grader, and the rows of the answers of the other subjects' questions    *)
(* and the usage-log rows of those questions are as before the run.        *)
(* Fails with C5: an id of another subject's answer in a response is       *)
(* written.                                                                *)
(***************************************************************************)
C7_OtherSubjectsUntouched ==
    (pc = "done" /\ scope /= "all") =>
        /\ \A q \in QuestionIds :
              grader_calls[q] > 0 => Question[q].subject_id = scope
        /\ \A a \in DOMAIN task_answers :
              SubjectOfAnswer(a) /= scope => task_answers[a] = pre_answers[a]
        /\ \A k \in DOMAIN NewLogs :
              Question[NewLogs[k].question_id].subject_id = scope

(***************************************************************************)
(* C8.  For an answer list of length L and a chunk size C > 0 the loop of  *)
(* lines 125-126 cuts ceil(L / C) chunks, each but the last of size C, the *)
(* last of a size from 1 to C, and the chunks in order concatenate to the  *)
(* list.  Checked under ChunkSpec.                                         *)
(***************************************************************************)
C8_ChunksPartitionAnswers ==
    pc = "chunked" =>
        LET L == Len(all_answers)
            C == chunk_size
            n == Len(chunk_log)
        IN  /\ n = (L + C - 1) \div C
            /\ \A k \in 1 .. n - 1 : Len(chunk_log[k].answers) = C
            /\ n > 0 => /\ Len(chunk_log[n].answers) >= 1
                        /\ Len(chunk_log[n].answers) <= C
            /\ ChunkAnswers = all_answers

\* a list cut into three chunks or more, the last one short
C8_Witness ==
    /\ pc = "chunked"
    /\ Len(chunk_log) >= 3
    /\ Len(chunk_log[Len(chunk_log)].answers) < chunk_size
    /\ all_answers[1] > all_answers[2]

(***************************************************************************)
(* C9.  A fetched question without answers is never submitted: the task    *)
(* marks it skipped when it comes to it, and in the run it gets no grader  *)
(* call, no call of update_task_answer_status and no usage-log row.        *)
(***************************************************************************)
C9_EmptyQuestionSkipped ==
    \A k \in DOMAIN questions :
        questions[k].task_answers = <<>> =>
            LET q == questions[k].id
            IN  /\ q_state[q] = (IF k < qi THEN "SKIPPED" ELSE "PENDING")
                /\ grader_calls[q] = 0
                /\ \A wr \in written : wr[1] /= q
                /\ LogsOf(q) = {}

\* the run went past Q2, which has no answer, and evaluated Q3
C9_Witness ==
    /\ pc = "done"
    /\ q_state["Q2"] = "SKIPPED"
    /\ q_state["Q3"] = "COMPLETED"

(***************************************************************************)
(* C10.  For a submitted question the grader calls of all its chunks come  *)
(* first, then one update_task_answer_status per entry of the result, in   *)
(* order, and the one usage-log row after the last of them; no row of      *)
(* task_answers changes before the last chunk was processed.               *)
(***************************************************************************)
\* the entries of a result as update calls for question q
AsCalls(q, evaluations) ==
    [k \in DOMAIN evaluations |->
        [question_id |-> q,
         task_answer_id |-> evaluations[k].task_answer_id,
         is_correct |-> evaluations[k].correct]]

C10_Order ==
    /\ pc \in {"eval", "returned"} =>
          /\ update_calls = <<>>
          /\ LogsOf(question.id) = {}
    /\ pc = "update" =>
          /\ grader_calls[question.id] = NumChunks
          /\ update_calls =
                AsCalls(question.id, SubSeq(service_result.evaluations, 1, w - 1))
          /\ LogsOf(question.id) = {}
    /\ (pc = "sleep" /\ q_state[question.id] = "COMPLETED") =>
          /\ grader_calls[question.id] = NumChunks
          /\ update_calls = AsCalls(question.id, service_result.evaluations)
          /\ Cardinality(LogsOf(question.id)) = 1

\* a step that changes a row of task_answers is taken after the last
\* chunk; a step that calls the grader is taken before any update
C10_Steps ==
    /\ task_answers' /= task_answers =>
          pc = "update" /\ grader_calls[question.id] = NumChunks
    /\ grader_calls' /= grader_calls =>
          pc = "eval" /\ update_calls = <<>> /\ task_answers' = task_answers
    /\ request_logs' /= request_logs =>
          /\ Len(update_calls) = Len(service_result.evaluations)
          /\ task_answers' = task_answers

\* C10: in every state the calls, updates and log row of the question at
\* hand are in this order, and every step keeps to it
C10_CallsThenUpdatesThenLog == [](C10_Order) /\ [][C10_Steps]_vars

\* Q1 completed after two grader calls and two updates
C10_Witness ==
    /\ pc = "sleep"
    /\ question.id = "Q1"
    /\ q_state["Q1"] = "COMPLETED"
    /\ grader_calls["Q1"] = 2
    /\ Len(update_calls) = 2

(***************************************************************************)
(* C11.  The usage log is append-only with one row per successfully        *)
(* evaluated question per run: among the rows a run has added, a question  *)
(* has at most one, a COMPLETED question has exactly one, and no step      *)
(* changes or removes a row that is already there.                         *)
(***************************************************************************)
C11_OnePerQuestion ==
    /\ Len(pre_logs) <= Len(request_logs)
    /\ SubSeq(request_logs, 1, Len(pre_logs)) = pre_logs
    /\ \A q \in QuestionIds :
           /\ Cardinality(LogsOf(q)) <= 1
           /\ q_state[q] = "COMPLETED" => Cardinality(LogsOf(q)) = 1

C11_RowsKept ==
    /\ Len(request_logs) <= Len(request_logs')
    /\ SubSeq(request_logs', 1, Len(request_logs)) = request_logs

C11_UsageLogAppendOnly == [](C11_OnePerQuestion) /\ [][C11_RowsKept]_vars

\* two questions of one run were completed: the second row joined the first
C11_Witness ==
    /\ q_state["Q1"] = "COMPLETED"
    /\ q_state["Q3"] = "COMPLETED"
    /\ Len(NewLogs) = 2

(***************************************************************************)
(* C12.  An invalid configuration (no grader credential, or a chunk size   *)
(* of zero or less) aborts the run before it starts: no question is        *)
(* submitted, no grader call is attempted and nothing is written to the    *)
(* store.                                                                  *)
(***************************************************************************)
InvalidConfiguration == ~api_key \/ chunk_size <= 0
\* the questions handed to evaluate_answers_with_ai so far
Submitted == {q \in QuestionIds : q_state[q] \in {"SUBMITTED", "COMPLETED", "FAILED"}}

C12_InvalidConfigurationAborts ==
    InvalidConfiguration =>
        /\ Submitted = {}
        /\ \A q \in QuestionIds : grader_calls[q] = 0
        /\ task_answers = pre_answers
        /\ request_logs = pre_logs

\* what the code keeps of it: without a credential no grader call is made
\* and nothing is written
C12_NoCallNoWrite ==
    InvalidConfiguration =>
        /\ \A q \in QuestionIds : grader_calls[q] = 0
        /\ task_answers = pre_answers
        /\ request_logs = pre_logs

\* without a credential the run still goes through every question
C12_RunGoesOn ==
    /\ ~api_key
    /\ pc = "done"
    /\ q_state["Q1"] = "FAILED"
    /\ q_state["Q3"] = "FAILED"
    /\ paused_after = {"Q1", "Q3"}

(***************************************************************************)
(* C13.  Pacing is between questions, not between chunks: every question   *)
(* that was submitted and has ended, COMPLETED or FAILED, is followed by a *)
(* pause before anything of the next question happens, and the task never  *)
(* pauses at a question that is still being evaluated, that is, between    *)
(* two chunk calls of one question.                                        *)
(***************************************************************************)
C13_PauseBetweenQuestionsOnly ==
    /\ \A q \in QuestionIds :
           (/\ q_state[q] \in {"COMPLETED", "FAILED"}
            /\ ~(pc = "sleep" /\ question.id = q))
           => q \in paused_after
    /\ \A q \in paused_after : q_state[q] \in {"COMPLETED", "FAILED"}

\* the first grader call of Q3 is due: Q1 failed after its two chunk calls,
\* and the task has paused once, after Q1
C13_Witness ==
    /\ pc = "eval"
    /\ question.id = "Q3"
    /\ grader_calls["Q3"] = 0
    /\ grader_calls["Q1"] = 2
    /\ q_state["Q1"] = "FAILED"
    /\ paused_after = {"Q1"}

(***************************************************************************)
(* C14.  Repository writes are not rolled back on a later failure: when a  *)
(* verdict write or the usage-log write of a question fails after verdicts *)
(* of that question were written, each answer written holds the verdict    *)
(* last written to it, and the rows added to the usage log before are      *)
(* still there.                                                            *)
(***************************************************************************)
\* the positions in update_calls of the writes to answer a
WritesTo(a) == {k \in DOMAIN update_calls : update_calls[k].task_answer_id = a}
\* the last of them
LastWriteTo(a) == CHOOSE k \in WritesTo(a) : \A j \in WritesTo(a) : j <= k

C14_WritesSurviveFailure ==
    pc = "crashed" =>
        /\ Len(update_calls) = w - 1
        /\ \A a \in AnswerIds :
               WritesTo(a) /= {} =>
                   task_answers[a].status = Some(update_calls[LastWriteTo(a)].is_correct)
        /\ Len(request_logs) = Len(pre_logs) + Cardinality({q \in QuestionIds : q_state[q] = "COMPLETED"})

\* the second write of Q3 failed after answer 13 of Q3 had got its verdict,
\* and Q1 had been completed before
C14_Witness ==
    /\ pc = "crashed"
    /\ question.id = "Q3"
    /\ q_state["Q1"] = "COMPLETED"
    /\ w = 2
    /\ update_calls[1].task_answer_id = MaxAnswers + 1
    /\ task_answers[MaxAnswers + 1].status /= pre_answers[MaxAnswers + 1].status

(***************************************************************************)
(* C15.  An answer whose id appears in no successfully parsed chunk        *)
(* response of the run keeps the verdict it had before the run: the        *)
(* answers of a chunk that came back empty or unparseable stay as they     *)
(* were while the other chunks' verdicts are written.                      *)
(***************************************************************************)
C15_UnnamedAnswersKeepVerdict ==
    \A a \in AnswerIds : a \notin parsed_ids => task_answers[a] = pre_answers[a]

\* Q1 is completed with one verdict parsed in its two chunk calls, for
\* answer 1: answer 1 has a verdict, answers 11 and 12 of the second chunk
\* are still ungraded
C15_Witness ==
    /\ q_state["Q1"] = "COMPLETED"
    /\ grader_calls["Q1"] = 2
    /\ parsed_ids = {1}
    /\ task_answers[1].status /= NULL
    /\ task_answers[ChunkSize + 1].status = NULL
    /\ task_answers[ChunkSize + 2].status = NULL

(***************************************************************************)
(* C18.  The verdict is the only stored field a run changes: the set of    *)
(* answers and, for every answer, its text, question, subject, student and *)
(* ground truth are at every moment of a run what they were when it began. *)
(* (Questions and subjects are the tables Question and SubjectIds, which   *)
(* no action writes, as no function of crud.py does.)                      *)
(***************************************************************************)
\* a row of task_answers without its verdict
WithoutStatus(row) == [row EXCEPT !.status = NULL]

C18_OnlyVerdictChanges ==
    /\ DOMAIN task_answers = DOMAIN pre_answers
    /\ \A a \in DOMAIN task_answers :
           WithoutStatus(task_answers[a]) = WithoutStatus(pre_answers[a])

\* a finished run that gave verdicts to answers of both Q1 and Q3
C18_Witness ==
    /\ pc = "done"
    /\ task_answers[1].status /= pre_answers[1].status
    /\ task_answers[MaxAnswers + 1].status /= pre_answers[MaxAnswers + 1].status

(***************************************************************************)
(* C20.  evaluate_answers_with_ai never propagates an exception: whatever  *)
(* the grader does (the call raises, the text is empty, not JSON or JSON   *)
(* of the wrong shape, the usage metadata is missing), every step taken    *)
(* inside the function stays in it or returns, and what it returns is None *)
(* or a result with a non-empty list of evaluations.                       *)
(***************************************************************************)
C20_ReturnsNoneOrVerdicts ==
    pc = "returned" =>
        \/ service_result.is_none
        \/ service_result.evaluations /= <<>>

C20_StaysOrReturns ==
    /\ pc = "eval" => pc' \in {"eval", "returned"}
    /\ (pc = "loop" /\ q_state' /= q_state /\ q_state'[question.id] = "SUBMITTED")
           => pc' \in {"eval", "returned"}

C20_NeverPropagates == [](C20_ReturnsNoneOrVerdicts) /\ [][C20_StaysOrReturns]_vars

\* the second chunk's response was JSON of the wrong shape, after a first
\* chunk that was parsed and carried no usage metadata: None is returned
C20_Witness ==
    /\ pc = "returned"
    /\ Kinds = <<"parsed", "raise">>
    /\ ~chunk_log[1].usage.present
    /\ service_result.is_none

(***************************************************************************)
(* C17.  Parsing round-trips: for every mapping from answer ids to         *)
(* Booleans, the response whose text is the mapping's JSON array, bare or  *)
(* inside a code fence tagged json, is parsed into exactly that mapping,   *)
(* one evaluation per id, and that is what the function returns (None for  *)
(* the empty mapping).                                                     *)
(***************************************************************************)
\* the mapping a list of evaluations stands for: the last entry of an id
AsMapping(evaluations) ==
    [id \in IdsOf(evaluations) |->
        LET last == CHOOSE k \in DOMAIN evaluations :
                        /\ evaluations[k].task_answer_id = id
                        /\ \A j \in DOMAIN evaluations :
                               evaluations[j].task_answer_id = id => j <= k
        IN  evaluations[last].correct]
\* the evaluations are mapping m, one for each id
Yields(evaluations, m) ==
    /\ Len(evaluations) = Cardinality(DOMAIN m)
    /\ AsMapping(evaluations) = m
\* the script's one response is the text of m
Prescribes(m) ==
    /\ Len(script) = 1
    /\ script[1].text \in {Bare(Serialize(m)), Fenced(Serialize(m))}

C17_ParsingRoundTrips ==
    \A m \in Mappings :
        Prescribes(m) =>
            /\ (pc = "eval" /\ played = 1) => Yields(aggregated_evaluations, m)
            /\ pc = "returned" =>
                   IF DOMAIN m = {}
                   THEN service_result.is_none
                   ELSE /\ ~service_result.is_none
                        /\ Yields(service_result.evaluations, m)

\* the fenced array with the one record (MaxAnswers + 1, TRUE) was parsed
C17_Witness ==
    /\ pc = "returned"
    /\ script[1].text = Fenced(JsonArray(<<Item(MaxAnswers + 1, TRUE)>>))
    /\ service_result.evaluations = <<[task_answer_id |-> MaxAnswers + 1, correct |-> TRUE]>>

(***************************************************************************)
(* C16.  Verdict writes are idempotent and keyed by answer id: a write     *)
(* gives the answer of that id the verdict, changes no other answer,       *)
(* changes nothing when no answer has the id, and applied once more to its *)
(* own result changes nothing; so when the batch is run again and the      *)
(* grader gives the answers it gave the first time, the finished second    *)
(* run leaves every verdict as the first run left it.                      *)
(***************************************************************************)
C16_RerunChangesNothing ==
    (run_id = 2 /\ pc = "done") =>
        /\ played = Len(script)
        /\ \A a \in AnswerIds : task_answers[a].status = pre_answers[a].status

C16_WriteIdempotentAndKeyed ==
    (pc = "update" /\ w' = w + 1) =>
        LET id == eval_result.task_answer_id
            c == eval_result.correct
        IN  /\ \A a \in DOMAIN task_answers :
                   a /= id => task_answers'[a] = task_answers[a]
            /\ id \in DOMAIN task_answers => task_answers'[id].status = Some(c)
            /\ id \notin DOMAIN task_answers => task_answers' = task_answers
            /\ update_task_answer_status(task_answers', id, c) = task_answers'

RunsStarted == {run_id} \cup (IF parked = <<>> THEN {} ELSE {parked.run_id})
CompletedBy(r, q) ==
    IF run_id = r THEN q_state[q] = "COMPLETED" ELSE parked.q_state[q] = "COMPLETED"
\* the rows of question q that run r added
RowsOf(r, q) ==
    {k \in DOMAIN request_logs : request_logs[k].question_id = q /\ log_run[k] = r}

C19_RunsNotCoordinated ==
    /\ (run_id = 1 /\ pc /= "idle" /\ parked = <<>>) => ENABLED SecondTrigger
    /\ Len(log_run) = Len(request_logs)
    /\ \A r \in RunsStarted, q \in QuestionIds :
           Cardinality(RowsOf(r, q)) = (IF CompletedBy(r, q) THEN 1 ELSE 0)

\* answer 1 of Q1 holds the verdict of run 1, answer 11 of Q1 that of run
\* 2, and Q1 has two rows in the usage log, one of each run
C19_Witness ==
    /\ writer[1] = 1
    /\ writer[ChunkSize + 1] = 2
    /\ Cardinality(RowsOf(1, "Q1")) = 1
    /\ Cardinality(RowsOf(2, "Q1")) = 1

(***************************************************************************)
(* C21.  Verdicts are monotone with respect to gradedness: every stored    *)
(* verdict is NULL, true or false, and no step of a run or of a run after  *)
(* it, whatever the grader answers and whatever fails, takes an answer     *)
(* that holds a verdict back to NULL.                                      *)
(***************************************************************************)
C21_VerdictIsNullOrBoolean ==
    \A a \in DOMAIN task_answers :
        task_answers[a].status \in {NULL, Some(TRUE), Some(FALSE)}

C21_GradedStaysGraded ==
    \A a \in DOMAIN task_answers :
        task_answers[a].status /= NULL =>
            /\ a \in DOMAIN task_answers'
            /\ task_answers'[a].status /= NULL

C21_GradednessMonotone ==
    [](C21_VerdictIsNullOrBoolean) /\ [][C21_GradedStaysGraded]_vars

\* the second run wrote FALSE to answer 1, which the first run had left TRUE
C21_Witness ==
    /\ run_id = 2
    /\ pre_answers[1].status = Some(TRUE)
    /\ writer[1] = 2
    /\ task_answers[1].status = Some(FALSE)

(***************************************************************************)
(* C22.  The answer count of a usage-log row is the number of answers the  *)
(* question had when the run fetched it, however many chunks were parsed   *)
(* and however many verdicts the result holds: 12 answers with one verdict *)
(* parsed give a row that says 12.                                         *)
(***************************************************************************)
\* the number of answers of question q when the run began
AnswersAtFetch(q) == Len(TaskAnswersOf(pre_answers, q))

C22_CountIsAllAnswers ==
    \A k \in DOMAIN NewLogs :
        NewLogs[k].question_count = AnswersAtFetch(NewLogs[k].question_id)

\* Q1 was completed with a single verdict parsed in its two chunk calls,
\* and its row counts all the answers of Q1
C22_Witness ==
    /\ q_state["Q1"] = "COMPLETED"
    /\ grader_calls["Q1"] = 2
    /\ verdicts_parsed["Q1"] = 1
    /\ Len(NewLogs) = 1
    /\ NewLogs[1].question_id = "Q1"
    /\ NewLogs[1].question_count = MaxAnswers

=============================================================================
